---- MODULE Spec2Model ----
(***************************************************************************)
(* Model of chess_com_json_parser.py: the JSON parser that collects rating *)
(* statistics of titled Chess.com players and writes one CSV per title.    *)
(*                                                                         *)
(* Python values are tagged records (PyInt, PyStr, PyNone, PyDict,         *)
(* PyList); a call's outcome is a record [exc, val] whose exc is "none"    *)
(* for a normal return and the exception's class name otherwise.  A        *)
(* network answer is a record [ok, body]: ok = FALSE stands for any        *)
(* exception of urlopen / read / decode / json.loads (all are caught by    *)
(* the same `except Exception`), ok = TRUE carries the decoded body.       *)
(***************************************************************************)
EXTENDS Integers, Sequences, FiniteSets, TLC

VARIABLES
    pc,            \* position of create_data_frame: "title", "stats", "profile", "write", "done",
                   \* "aborted"; "call" when a normalizer function is called on its own
    exc,           \* class name of the uncaught exception that ended the run ("none" while running)
    t,             \* index of the current title in fide_titles
    players,       \* the list returned by get_list_of_titled_players for the current title
    i,             \* index of the current player in players
    info,          \* value of get_relevant_information(player) awaiting get_other_data(player)
    current_dict,  \* the dict of create_data_frame: [keys: insertion order, rows: key -> row]
    files,         \* the CSV files written so far: title -> [keys, rows]
    log,           \* history: the fetches, insertions and writes made, in order
    lists,         \* history: title -> the membership list answered for it
    asked,         \* history: the answer of the stats fetch of the iteration in progress
    origin,        \* history: player -> the two answers fetched in the iteration that stored its row
    failed,        \* history: the kind of failure that ended the run ("none" if none)
    stats_resp,    \* argument of the normalizer calls: the answer of the stats endpoint
    profile_resp,  \* argument of the normalizer calls: the answer of the profile endpoint
    ret            \* the last normalizer call: [fn, exc, val]

vars == <<pc, exc, t, players, i, info, current_dict, files, log, lists, asked,
          origin, failed, stats_resp, profile_resp, ret>>

runVars == <<pc, exc, t, players, i, info, current_dict, files, log, lists, asked, origin,
             failed>>
callVars == <<stats_resp, profile_resp, ret>>

(***************************************************************************)
(* Bounds of the model.                                                    *)
(***************************************************************************)
\* number of titles handed to create_data_frame (a prefix of FIDE_TITLES)
MaxTitles == 2
\* longest membership list the titled endpoint answers with
MaxMembers == 2
\* most top-level keys present in a stats bundle
MaxPresent == 2
\* most chunks a country string is concatenated from
MaxChunks == 3

(***************************************************************************)
(* Program constants.                                                      *)
(***************************************************************************)
FIDE_TITLES == <<"GM", "WGM", "IM", "WIM", "FM", "WFM", "NM", "WNM", "CM", "WCM">>

FEATURES == <<"rapid_rating", "rapid_wins", "rapid_losses", "rapid_draws",
              "blitz_rating", "blitz_wins", "blitz_losses", "blitz_draws",
              "bullet_rating", "bullet_wins", "bullet_losses", "bullet_draws",
              "tactics_rating", "puzzle_rush_rating", "country", "location", "title">>

\* the literal removed from `country` by get_other_data
COUNTRY_PREFIX == "https://api.chess.com/pub/country/"

\* the key paths read by get_relevant_information, in the order of its try blocks
STAT_PATHS == <<
    <<"chess_rapid", "best", "rating">>,  <<"chess_rapid", "record", "win">>,
    <<"chess_rapid", "record", "loss">>,  <<"chess_rapid", "record", "draw">>,
    <<"chess_blitz", "best", "rating">>,  <<"chess_blitz", "record", "win">>,
    <<"chess_blitz", "record", "loss">>,  <<"chess_blitz", "record", "draw">>,
    <<"chess_bullet", "best", "rating">>, <<"chess_bullet", "record", "win">>,
    <<"chess_bullet", "record", "loss">>, <<"chess_bullet", "record", "draw">>,
    <<"tactics", "highest", "rating">>,   <<"puzzle_rush", "best", "score">> >>

(***************************************************************************)
(* Python values and call outcomes.                                        *)
(***************************************************************************)
PyNone == [ty |-> "NoneType"]
PyInt(n) == [ty |-> "int", n |-> n]
PyStr(s) == [ty |-> "str", s |-> s]
PyDict(d) == [ty |-> "dict", d |-> d]
PyList(items) == [ty |-> "list", items |-> items]

EmptyMap == << >>

Ok(v) == [exc |-> "none", val |-> v]
Raise(e) == [exc |-> e, val |-> PyNone]

Answer(body) == [ok |-> TRUE, body |-> body]
NoAnswer == [ok |-> FALSE, body |-> PyNone]

\* obj[key] for a str key: only a dict accepts it; a missing key is a KeyError,
\* any other receiver (None, int, str, list) is a TypeError
getitem(obj, key) ==
    IF obj.ty = "dict"
    THEN IF key \in DOMAIN obj.d THEN Ok(obj.d[key]) ELSE Raise("KeyError")
    ELSE Raise("TypeError")

\* r[key] where r is the outcome of the expression to the left
Subscript(r, key) == IF r.exc = "none" THEN getitem(r.val, key) ELSE r

Digits == <<"0", "1", "2", "3", "4", "5", "6", "7", "8", "9">>

RECURSIVE NatStr(_)
NatStr(n) == IF n < 10 THEN Digits[n + 1] ELSE NatStr(n \div 10) \o Digits[(n % 10) + 1]

\* str(v) for the values a leaf of a bundle holds
str(v) ==
    CASE v.ty = "str" -> v.s
      [] v.ty = "int" -> IF v.n < 0 THEN "-" \o NatStr(-v.n) ELSE NatStr(v.n)
      [] v.ty = "NoneType" -> "None"

(***************************************************************************)
(* compute_stats and get_relevant_information.                             *)
(***************************************************************************)
\* a plausible slip: player_data kept at module level, so that a failed fetch
\* returns what the last stored player's fetch returned
compute_stats_stale(resp) ==
    IF resp.ok THEN Ok(resp.body)
    ELSE IF current_dict.keys # << >>
         THEN Ok(origin[current_dict.keys[Len(current_dict.keys)]].stats.body)
         ELSE Raise("UnboundLocalError")

\* the except block prints and falls through to `return player_data`, a local
\* that was never bound
compute_stats(resp) ==
    IF resp.ok THEN Ok(resp.body) ELSE Raise("UnboundLocalError")

\* one try block: str(player_stats[k1][k2][k3]) except KeyError: "0"
StatField(player_stats, path) ==
    LET r == Subscript(Subscript(getitem(player_stats, path[1]), path[2]), path[3])
    IN  IF r.exc = "none" THEN Ok(PyStr(str(r.val)))
        ELSE IF r.exc = "KeyError" THEN Ok(PyStr("0"))
        ELSE r

get_relevant_information(resp) ==
    LET player_stats == compute_stats(resp)
    IN  IF player_stats.exc # "none" THEN player_stats
        ELSE LET fields == [k \in 1..Len(STAT_PATHS) |-> StatField(player_stats.val, STAT_PATHS[k])]
                 bad == {k \in 1..Len(STAT_PATHS) : fields[k].exc # "none"}
             IN  IF bad = {}
                 THEN Ok(PyList([k \in 1..Len(STAT_PATHS) |-> fields[k].val]))
                 ELSE fields[CHOOSE k \in bad : \A m \in bad : k <= m]

(***************************************************************************)
(* get_other_data and create_entry.                                        *)
(***************************************************************************)
\* s.replace(old, ""): the leftmost occurrence of old is removed, and the search
\* goes on in what follows it, so the occurrences removed never overlap (old is
\* not empty)
RECURSIVE Replace(_, _)
Replace(s, old) ==
    LET n == Len(old)
        hits == {k \in 1..(Len(s) - n + 1) : SubSeq(s, k, k + n - 1) = old}
    IN  IF hits = {} THEN s
        ELSE LET k == CHOOSE h \in hits : \A m \in hits : h <= m
             IN  SubSeq(s, 1, k - 1) \o Replace(SubSeq(s, k + n, Len(s)), old)

\* a plausible slip: the literal without its final slash
country_code_no_slash(c) == Replace(c, "https://api.chess.com/pub/country")

\* location_data['country'].replace("https://api.chess.com/pub/country/", '')
country_code(c) == Replace(c, COUNTRY_PREFIX)

\* try: location_data[key] except KeyError: default
OrDefault(location_data, key, default) ==
    LET r == getitem(location_data, key)
    IN  IF r.exc = "KeyError" THEN Ok(PyStr(default)) ELSE r

\* a plausible slip: one try block around both optional lookups, so that a missing
\* `location` also defaults `title`
get_other_data_one_try(resp) ==
    IF ~resp.ok THEN Raise("UnboundLocalError")
    ELSE LET location_data == resp.body
             c == getitem(location_data, "country")
         IN  IF c.exc # "none" THEN c
             ELSE IF c.val.ty # "str" THEN Raise("AttributeError")
             ELSE LET location == getitem(location_data, "location")
                      title == getitem(location_data, "title")
                  IN  IF location.exc = "none" /\ title.exc = "none"
                      THEN Ok(PyList(<<PyStr(country_code(c.val.s)), location.val, title.val>>))
                      ELSE Ok(PyList(<<PyStr(country_code(c.val.s)),
                                       PyStr("No Location Data Available"), PyStr("None")>>))

\* the except block prints and falls through to line 77, where location_data was
\* never bound
get_other_data(resp) ==
    IF ~resp.ok THEN Raise("UnboundLocalError")
    ELSE LET location_data == resp.body
             c == getitem(location_data, "country")
         IN  IF c.exc # "none" THEN c
             ELSE IF c.val.ty # "str" THEN Raise("AttributeError")
             ELSE LET location == OrDefault(location_data, "location", "No Location Data Available")
                      title == OrDefault(location_data, "title", "None")
                  IN  IF location.exc # "none" THEN location
                      ELSE IF title.exc # "none" THEN title
                      ELSE Ok(PyList(<<PyStr(country_code(c.val.s)), location.val, title.val>>))

\* get_relevant_information(player) + get_other_data(player): the left operand is
\* evaluated first, and the profile is fetched only if it returned
create_entry(sresp, presp) ==
    LET left == get_relevant_information(sresp)
    IN  IF left.exc # "none" THEN left
        ELSE LET right == get_other_data(presp)
             IN  IF right.exc # "none" THEN right
                 ELSE Ok(PyList(left.val.items \o right.val.items))

(***************************************************************************)
(* The bundles the endpoints answer with.  A stats bundle is a JSON object *)
(* whose rating / record / tactics / puzzle-rush members may be absent at  *)
(* any depth or hold a value that is no object; a profile bundle is a JSON *)
(* object whose `country`, when present, is a string.                      *)
(***************************************************************************)
LeafVals == {PyInt(2400), PyNone}
NonMappings == {PyNone, PyInt(5)}

\* the dicts whose keys are any subset of K and whose values are drawn from V
DictsOver(K, V) == {PyDict(f) : f \in UNION {[S -> V] : S \in SUBSET K}}

BestObjects == DictsOver({"rating"}, LeafVals) \cup NonMappings
RecordObjects == DictsOver({"win", "loss", "draw"}, LeafVals) \cup NonMappings
HighestObjects == DictsOver({"rating"}, LeafVals) \cup NonMappings
ScoreObjects == DictsOver({"score"}, LeafVals) \cup NonMappings

SpeedObjects ==
    {PyDict(f) : f \in UNION {{g \in [S -> BestObjects \cup RecordObjects] :
                                   /\ "best" \in S => g["best"] \in BestObjects
                                   /\ "record" \in S => g["record"] \in RecordObjects}
                               : S \in SUBSET {"best", "record"}}}
    \cup NonMappings
TacticsObjects == DictsOver({"highest"}, HighestObjects) \cup NonMappings
PuzzleRushObjects == DictsOver({"best"}, ScoreObjects) \cup NonMappings

TopKeys == {"chess_rapid", "chess_blitz", "chess_bullet", "tactics", "puzzle_rush"}

TopObjects(k) ==
    CASE k = "tactics" -> TacticsObjects
      [] k = "puzzle_rush" -> PuzzleRushObjects
      [] OTHER -> SpeedObjects

StatsBundles ==
    {PyDict(f) : f \in UNION {{g \in [S -> SpeedObjects \cup TacticsObjects \cup PuzzleRushObjects] :
                                   \A k \in S : g[k] \in TopObjects(k)}
                               : S \in {S \in SUBSET TopKeys : Cardinality(S) <= MaxPresent}}}

\* the scenario of the documentation: a player with blitz statistics only
BlitzOnly ==
    PyDict("chess_blitz" :> PyDict(("best" :> PyDict("rating" :> PyInt(2400)))
                                   @@ ("record" :> PyDict(("win" :> PyInt(10)) @@ ("loss" :> PyInt(2))
                                                          @@ ("draw" :> PyInt(1))))))

Chunks == {COUNTRY_PREFIX, "https://api.chess.com/pub/coun", "try/", "US"}

\* the strings made of exactly n chunks
RECURSIVE Concats(_)
Concats(n) == IF n = 0 THEN {""} ELSE {c \o rest : c \in Chunks, rest \in Concats(n - 1)}

Countries == UNION {Concats(n) : n \in 1..MaxChunks}

\* a member of a JSON object that may be missing
Absent == [ty |-> "absent"]
Member(k, v) == IF v = Absent THEN EmptyMap ELSE (k :> v)

ProfileBundles ==
    {PyDict(Member("country", c) @@ Member("location", l) @@ Member("title", ti)) :
        c \in {PyStr(x) : x \in Countries} \cup {Absent},
        l \in {PyStr("Oslo"), PyNone, Absent},
        ti \in {PyStr("GM"), PyInt(7), Absent}}

(***************************************************************************)
(* The normalizer functions called on one answer of each endpoint.         *)
(***************************************************************************)
NoCall == [fn |-> "none", exc |-> "none", val |-> PyNone]

Returned(fn, r) == [fn |-> fn, exc |-> r.exc, val |-> r.val]

\* the variables of create_data_frame, which no normalizer call touches
RunIdle ==
    /\ pc = "call" /\ exc = "none" /\ t = 0 /\ players = << >> /\ i = 0
    /\ info = PyNone /\ current_dict = [keys |-> << >>, rows |-> EmptyMap]
    /\ files = EmptyMap /\ log = << >> /\ lists = EmptyMap /\ asked = NoAnswer /\ origin = EmptyMap
    /\ failed = "none"

EntryStats == {Answer(PyDict(EmptyMap)), Answer(BlitzOnly),
               Answer(PyDict("chess_rapid" :> PyNone)), NoAnswer}

InitStats ==
    /\ RunIdle
    /\ stats_resp \in {Answer(b) : b \in StatsBundles} \cup {NoAnswer}
    /\ profile_resp = NoAnswer
    /\ ret = NoCall

InitEntry ==
    /\ RunIdle
    /\ stats_resp \in EntryStats
    /\ profile_resp \in {Answer(b) : b \in ProfileBundles} \cup {NoAnswer}
    /\ ret = NoCall

Call_get_relevant_information ==
    /\ pc = "call" /\ ret = NoCall
    /\ ret' = Returned("get_relevant_information", get_relevant_information(stats_resp))
    /\ UNCHANGED <<runVars, stats_resp, profile_resp>>

Call_get_other_data ==
    /\ pc = "call" /\ ret = NoCall
    /\ ret' = Returned("get_other_data", get_other_data(profile_resp))
    /\ UNCHANGED <<runVars, stats_resp, profile_resp>>

Call_create_entry ==
    /\ pc = "call" /\ ret = NoCall
    /\ ret' = Returned("create_entry", create_entry(stats_resp, profile_resp))
    /\ UNCHANGED <<runVars, stats_resp, profile_resp>>

NextStats == Call_get_relevant_information

NextEntry == Call_get_other_data \/ Call_create_entry

SpecStats == InitStats /\ [][NextStats]_vars

SpecEntry == InitEntry /\ [][NextEntry]_vars

(***************************************************************************)
(* create_data_frame(FIDE_TITLES), one step per call it makes.  Every      *)
(* exception that leaves a callee is uncaught in create_data_frame and     *)
(* ends the run.                                                           *)
(***************************************************************************)
\* the sequence of titles handed to create_data_frame
fide_titles == SubSeq(FIDE_TITLES, 1, MaxTitles)

Players == {"hikaru", "magnus"}

Range(q) == {q[k] : k \in DOMAIN q}

\* the membership lists the titled endpoint answers with; a title may have no member
MemberLists == UNION {[1..n -> Players] : n \in 0..MaxMembers}

ListAnswers ==
    {Answer(PyDict("players" :> PyList([k \in DOMAIN l |-> PyStr(l[k])]))) : l \in MemberLists}
    \cup {Answer(PyDict(EmptyMap)), NoAnswer}

CountryOnly == PyDict("country" :> PyStr(COUNTRY_PREFIX \o "US"))
FullProfile == PyDict(("country" :> PyStr(COUNTRY_PREFIX \o "NO")) @@ ("location" :> PyStr("Oslo"))
                      @@ ("title" :> PyStr("GM")))

TacticsOnly == PyDict("tactics" :> PyDict("highest" :> PyDict("rating" :> PyInt(2400))))

\* what the stats endpoint may answer when asked for a player
StatsAnswers(player) ==
    IF player = "hikaru"
    THEN {Answer(BlitzOnly), Answer(PyDict(EmptyMap)), Answer(PyDict("chess_rapid" :> PyNone)),
          NoAnswer}
    ELSE {Answer(TacticsOnly), NoAnswer}

\* what the profile endpoint may answer when asked for a player
ProfileAnswers(player) ==
    IF player = "hikaru"
    THEN {Answer(CountryOnly), Answer(PyDict("location" :> PyStr("Oslo"))), NoAnswer}
    ELSE {Answer(FullProfile), NoAnswer}

\* the except block prints and falls through to `return list_of_users['players']`
get_list_of_titled_players(resp) ==
    IF resp.ok THEN getitem(resp.body, "players") ELSE Raise("UnboundLocalError")

\* current_dict[player] = row: a new key goes last, a known key keeps its place
dict_setitem(d, key, row) ==
    [keys |-> IF key \in Range(d.keys) THEN d.keys ELSE Append(d.keys, key),
     rows |-> (key :> row) @@ d.rows]

\* where create_data_frame goes once the list of n players is known: `for player
\* in []` makes no iteration, and the frame is built next
after_list(n) == IF n = 0 THEN "write" ELSE "stats"

\* where the loop over the players goes after an insertion
after_insert(k, n) == IF k = n THEN "write" ELSE "stats"

Event(ev, who) == [ev |-> ev, who |-> who]

Abort(e, kind) ==
    /\ pc' = "aborted" /\ exc' = e /\ failed' = kind

Init ==
    /\ pc = "title" /\ exc = "none" /\ t = 1 /\ players = << >> /\ i = 0
    /\ info = PyNone /\ current_dict = [keys |-> << >>, rows |-> EmptyMap]
    /\ files = EmptyMap /\ log = << >> /\ lists = EmptyMap /\ asked = NoAnswer
    /\ origin = EmptyMap /\ failed = "none"
    /\ stats_resp = NoAnswer /\ profile_resp = NoAnswer /\ ret = NoCall

\* for player in get_list_of_titled_players(title)
ListPlayers ==
    /\ pc = "title"
    /\ \E resp \in ListAnswers :
         LET title == fide_titles[t]
             r == get_list_of_titled_players(resp)
         IN  /\ log' = Append(log, Event("list", title))
             /\ IF r.exc # "none"
                THEN /\ Abort(r.exc, IF resp.ok THEN "list_shape" ELSE "list_fetch")
                     /\ UNCHANGED <<players, i, lists>>
                ELSE /\ players' = [k \in DOMAIN r.val.items |-> r.val.items[k].s]
                     /\ i' = 1
                     /\ lists' = (title :> players') @@ lists
                     /\ pc' = after_list(Len(players'))
                     /\ UNCHANGED <<exc, failed>>
    /\ UNCHANGED <<t, info, current_dict, files, asked, origin, callVars>>

\* create_entry(player), left operand: get_relevant_information(player)
FetchStats ==
    /\ pc = "stats"
    /\ \E resp \in StatsAnswers(players[i]) :
         LET r == get_relevant_information(resp)
         IN  /\ log' = Append(log, Event("stats", players[i]))
             /\ asked' = resp
             /\ IF r.exc # "none"
                THEN /\ Abort(r.exc, IF resp.ok THEN "stats_shape" ELSE "stats_fetch")
                     /\ UNCHANGED info
                ELSE /\ info' = r.val
                     /\ pc' = "profile"
                     /\ UNCHANGED <<exc, failed>>
    /\ UNCHANGED <<t, players, i, current_dict, files, lists, origin, callVars>>

\* create_entry(player), right operand: get_other_data(player), then
\* current_dict[player] = the concatenation
FetchProfile ==
    /\ pc = "profile"
    /\ \E resp \in ProfileAnswers(players[i]) :
         LET r == get_other_data(resp)
             player == players[i]
         IN  IF r.exc # "none"
             THEN /\ log' = Append(log, Event("profile", player))
                  /\ Abort(r.exc, IF resp.ok THEN "no_country" ELSE "profile_fetch")
                  /\ UNCHANGED <<i, current_dict, origin>>
             ELSE /\ log' = log \o <<Event("profile", player), Event("insert", player)>>
                  /\ current_dict' = dict_setitem(current_dict, player,
                                                  info.items \o r.val.items)
                  /\ origin' = (player :> [stats |-> asked, profile |-> resp]) @@ origin
                  /\ pc' = after_insert(i, Len(players))
                  /\ i' = i + 1
                  /\ UNCHANGED <<exc, failed>>
    /\ UNCHANGED <<t, players, info, files, lists, asked, callVars>>

\* DataFrame.from_dict(current_dict, orient='index'); columns = FEATURES;
\* to_csv('chess_data_' + title + '.csv').  The frame of an empty dict has no
\* column, so that naming 17 columns at line 218 raises ValueError (length
\* mismatch), which nothing catches; with rows stored, the frame has the 17 columns
\* of every row and the file is written.
WriteCsv ==
    /\ pc = "write"
    /\ IF current_dict.keys = << >>
       THEN /\ Abort("ValueError", "empty_frame")
            /\ UNCHANGED <<t, files, log>>
       ELSE /\ files' = (fide_titles[t] :> current_dict) @@ files
            /\ log' = Append(log, Event("write", fide_titles[t]))
            /\ t' = t + 1
            /\ pc' = IF t = Len(fide_titles) THEN "done" ELSE "title"
            /\ UNCHANGED <<exc, failed>>
    /\ UNCHANGED <<players, i, info, current_dict, lists, asked, origin, callVars>>

Next == ListPlayers \/ FetchStats \/ FetchProfile \/ WriteCsv

Spec == Init /\ [][Next]_vars

(***************************************************************************)
(* Properties of the normalizer.                                           *)
(***************************************************************************)
\* the value a bundle holds at a key path, Absent when a key of the path is
\* missing or is asked of a value that is no object
RECURSIVE ValueAt(_, _)
ValueAt(obj, path) ==
    IF path = << >> THEN obj
    ELSE IF obj.ty = "dict" /\ Head(path) \in DOMAIN obj.d
         THEN ValueAt(obj.d[Head(path)], Tail(path))
         ELSE Absent

\* the field the documentation promises for a key path
PathText(bundle, path) ==
    IF ValueAt(bundle, path) = Absent THEN "0" ELSE str(ValueAt(bundle, path))

CalledStats == ret.fn = "get_relevant_information" /\ stats_resp.ok

\* C1: each of the 14 stats fields returned by get_relevant_information is the text
\* of the value at its own key path when every key of the path is present and "0"
\* otherwise, whatever the other paths hold.
C1_FieldsFollowOwnPath ==
    CalledStats =>
        /\ ret.exc = "none"
        /\ \A k \in 1..Len(STAT_PATHS) :
               ret.val.items[k] = PyStr(PathText(stats_resp.body, STAT_PATHS[k]))

\* C2: a path missing at any depth (a key absent, or an intermediate key holding
\* null or a number) never makes get_relevant_information raise: it returns 14
\* fields with "0" in the affected ones.
C2_MissingPathNeverRaises ==
    CalledStats =>
        /\ ret.exc = "none"
        /\ Len(ret.val.items) = 14
        /\ \A k \in 1..Len(STAT_PATHS) :
               ValueAt(stats_resp.body, STAT_PATHS[k]) = Absent => ret.val.items[k] = PyStr("0")

HasCountry == profile_resp.ok /\ "country" \in DOMAIN profile_resp.body.d

\* C3: for every stats bundle and every profile bundle holding `country`,
\* create_entry returns 17 entries, one per name of FEATURES, each of them a string.
C3_SeventeenStrings ==
    (ret.fn = "create_entry" /\ stats_resp.ok /\ HasCountry) =>
        /\ ret.exc = "none"
        /\ Len(ret.val.items) = Len(FEATURES)
        /\ \A k \in 1..Len(FEATURES) : ret.val.items[k].ty = "str"

CalledOther == ret.fn = "get_other_data" /\ HasCountry

\* C7: for a profile bundle holding `country`, get_other_data returns the bundle's
\* `location` when present and "No Location Data Available" when absent, and the
\* bundle's `title` when present and "None" when absent, each independently.
C7_LocationTitleDefaults ==
    CalledOther =>
        LET d == profile_resp.body.d
        IN  /\ ret.exc = "none"
            /\ ret.val.items[2] = IF "location" \in DOMAIN d THEN d["location"]
                                  ELSE PyStr("No Location Data Available")
            /\ ret.val.items[3] = IF "title" \in DOMAIN d THEN d["title"] ELSE PyStr("None")

\* get_other_data was called on a bundle with `country` and `title` but no `location`
C7_Witness ==
    /\ CalledOther /\ ret.exc = "none"
    /\ DOMAIN profile_resp.body.d = {"country", "title"}
    /\ ret.val.items[2] = PyStr("No Location Data Available")
    /\ ret.val.items[3] = PyStr("GM")

Occurs(s, old) == \E k \in 1..(Len(s) - Len(old) + 1) : SubSeq(s, k, k + Len(old) - 1) = old

StartsWith(s, old) == Len(s) >= Len(old) /\ SubSeq(s, 1, Len(old)) = old

\* C8 as stated: for every country string the extraction applied to its own output
\* changes nothing, and the prefix followed by the code US gives exactly US.
C8_StripIdempotent ==
    (CalledOther /\ ret.exc = "none") =>
        /\ Replace(ret.val.items[1].s, COUNTRY_PREFIX) = ret.val.items[1].s
        /\ profile_resp.body.d["country"].s = COUNTRY_PREFIX \o "US"
               => ret.val.items[1].s = "US"

\* C8 as amended: a country string holding no occurrence of the prefix is returned
\* unchanged, the prefix followed by such a string is returned as that string, and
\* in both cases the extraction applied to the output changes nothing.
C8_StripPlainCodes ==
    (CalledOther /\ ret.exc = "none") =>
        LET c == profile_resp.body.d["country"].s
            code == IF StartsWith(c, COUNTRY_PREFIX)
                    THEN SubSeq(c, Len(COUNTRY_PREFIX) + 1, Len(c)) ELSE c
            out == ret.val.items[1].s
        IN  ~Occurs(code, COUNTRY_PREFIX) =>
                /\ out = code
                /\ Replace(out, COUNTRY_PREFIX) = out

\* get_other_data was called on the country URL of the documentation's example
C8_Witness ==
    /\ CalledOther /\ ret.exc = "none"
    /\ profile_resp.body.d["country"] = PyStr("https://api.chess.com/pub/country/US")
    /\ ret.val.items[1] = PyStr("US")

(***************************************************************************)
(* Properties of create_data_frame.                                        *)
(***************************************************************************)
\* the place of the first occurrence of x in the sequence q
FirstPos(q, x) == CHOOSE k \in DOMAIN q : q[k] = x /\ \A m \in DOMAIN q : q[m] = x => k <= m

\* C4: the dataset written for a title whose membership list has N players has at
\* most N rows, in the relative order of the list, and no key twice; for every
\* title of the run.
C4_RowsWithinMembership ==
    \A title \in DOMAIN files :
        LET keys == files[title].keys
            list == lists[title]
        IN  /\ Len(keys) <= Len(list)
            /\ \A x, y \in DOMAIN keys : x # y => keys[x] # keys[y]
            /\ \A x, y \in DOMAIN keys :
                   x < y => /\ keys[x] \in Range(list) /\ keys[y] \in Range(list)
                            /\ FirstPos(list, keys[x]) < FirstPos(list, keys[y])

\* C5: the dataset is empty when the processing of a title starts, and every key of
\* the artifact written for a title is a member of that title's list.
C5_DatasetPerTitle ==
    /\ pc = "title" => current_dict.keys = << >>
    /\ \A title \in DOMAIN files : Range(files[title].keys) \subseteq Range(lists[title])

\* C6: a failure on one player (a failed stats or profile fetch, a profile without
\* `country`) does not end the run: the later players are still fetched and the
\* title's artifact is still written.
C6_FailureContained ==
    failed \in {"stats_fetch", "profile_fetch", "no_country"} => pc # "aborted"

PlayerEvents(player) ==
    <<Event("stats", player), Event("profile", player), Event("insert", player)>>

RECURSIVE MemberEvents(_)
MemberEvents(list) ==
    IF list = << >> THEN << >> ELSE PlayerEvents(Head(list)) \o MemberEvents(Tail(list))

\* the events of one title: its list is fetched; once the list is known, each of
\* its members in turn, then the write
TitleEvents(title) ==
    <<Event("list", title)>>
    \o (IF title \in DOMAIN lists THEN MemberEvents(lists[title]) \o <<Event("write", title)>>
        ELSE << >>)

RECURSIVE RunEvents(_)
RunEvents(k) ==
    IF k > Len(fide_titles) THEN << >> ELSE TitleEvents(fide_titles[k]) \o RunEvents(k + 1)

IsPrefix(a, b) == Len(a) <= Len(b) /\ SubSeq(b, 1, Len(a)) = a

\* a fetch raised: the transport or the decoding failed, or the answer lacks the
\* member the fetching function returns (`players`, `country`)
FetchFailed == failed \in {"list_fetch", "list_shape", "stats_fetch", "profile_fetch", "no_country"}

\* C9: in a run where no fetch fails the events follow, title by title in the order
\* of fide_titles: one fetch of the membership list; for each member in list order
\* one stats fetch, one profile fetch and one insertion; then one write of the
\* title's artifact.  The run does not end before the artifact of the last title is
\* written, and ends there.
C9_EventOrder ==
    ~FetchFailed =>
        /\ IsPrefix(log, RunEvents(1))
        /\ pc # "aborted"
        /\ pc = "done" => log = RunEvents(1) /\ DOMAIN lists = Range(fide_titles)

\* C10: the row stored under a player was computed from the stats bundle and the
\* profile bundle that the two fetches made for that player answered in the
\* iteration that stored it; an iteration in which a fetch fails stores no row.
C10_RowsFromOwnFetches ==
    /\ \A player \in Range(current_dict.keys) :
           /\ player \in DOMAIN origin
           /\ origin[player].stats.ok /\ origin[player].profile.ok
           /\ origin[player].stats \in StatsAnswers(player)
           /\ origin[player].profile \in ProfileAnswers(player)
           /\ current_dict.rows[player]
                  = create_entry(origin[player].stats, origin[player].profile).val.items
    /\ failed \in {"stats_fetch", "profile_fetch"} => log[Len(log)].ev # "insert"

\* a fetch failed for a player while the dataset held another player's row, and
\* the player got no row
C10_Witness ==
    /\ failed \in {"stats_fetch", "profile_fetch"}
    /\ current_dict.keys # << >>
    /\ players[i] \notin Range(current_dict.keys)

====
